---- MODULE Spec2Model ----
(***************************************************************************)
(* The transactional commit path of nutsdb (src/tx.go): DB.Begin, Tx.put,  *)
(* Tx.Commit with its deferred cleanup, Tx.rotateActiveFile, Tx.writeData, *)
(* the index builders and Tx.Rollback, as a state machine.                 *)
(*                                                                         *)
(* Every transaction t of Txs is driven by one caller.  A call is a        *)
(* sequence of steps (th[t].pc for Begin and Commit, th[t].rpc for         *)
(* Rollback); steps of different transactions interleave freely, the       *)
(* sync.RWMutex db.mu is what serialises them.                             *)
(***************************************************************************)
EXTENDS Integers, Sequences, FiniteSets, TLC

(* ------------------------------ bounds -------------------------------- *)
\* transactions begun in one run
MaxTx == 2
\* put calls in one run, over all transactions
MaxWrites == 2
\* injected I/O failures in one run
MaxFaults == 1
\* db.opt.SegmentSize, in bytes
SegmentSize == 3
\* db.getMaxBatchCount() and db.getMaxBatchSize()
MaxBatchCount == 2
MaxBatchSize == 4

Txs == 1..MaxTx
\* the buckets and keys of the DB
Buckets == {"b1", "b2"}
Keys == {1, 2}
\* the bucket and the key that Put writes where the callers run concurrently
HotBuckets == {"b1"}
HotKeys == {1}
\* encoded entry sizes a put can produce: small, most of a segment, too big
EntrySizes == {1, SegmentSize - 1, SegmentSize + 1}

(* ----------------------- constants of src/tx.go ----------------------- *)
txStatusRunning == 1
txStatusCommitting == 2
txStatusClosed == 3
\* the zero value of tx.status before setStatusRunning stored anything
txStatusUnset == 0
\* Persistent: ttl of a key that never expires
Persistent == 0

UnCommitted == "UnCommitted"
Committed == "Committed"

HintKeyValAndRAMIdxMode == "HintKeyValAndRAMIdxMode"
HintKeyAndRAMIdxMode == "HintKeyAndRAMIdxMode"
HintBPTSparseIdxMode == "HintBPTSparseIdxMode"

DataStructureTree == "Tree"
DataStructureNone == "None"
DataSetFlag == "Set"
DataBPTreeBucketDeleteFlag == "BPTreeBucketDelete"
DataDeleteFlag == "Delete"

NoErr == "nil"
ErrDBClosed == "ErrDBClosed"
ErrTxClosed == "ErrTxClosed"
ErrTxNotWritable == "ErrTxNotWritable"
ErrTxnTooBig == "ErrTxnTooBig"
ErrDataSizeExceed == "ErrDataSizeExceed"
ErrCannotCommitAClosedTx == "ErrCannotCommitAClosedTx"
ErrCannotRollbackACommittingTx == "ErrCannotRollbackACommittingTx"
ErrCannotRollbackAClosedTx == "ErrCannotRollbackAClosedTx"
\* errors.New("not enough file space") of writeData
ErrNoSpace == "not enough file space"
\* an error returned by the file system or by a B+ tree
ErrIO == "ErrIO"
\* the call did not return: a nil pointer dereference (runtime panic)
Panic == "panic"
\* the call did not return: "sync: Unlock of unlocked RWMutex" (fatal error)
Fatal == "fatal"
\* no call has returned yet
NoRet == "none"

VARIABLES
    opt,     \* db.opt: EntryIdxMode, SyncEnable, RWMode, ErrorHandler
    db,      \* the DB struct: closed, mu, MaxFileID, ActiveFile, the indexes
    disk,    \* the files: segment entries and the sparse-mode files
    tx,      \* tx[t]: the Tx struct of transaction t
    th,      \* th[t]: the position and the locals of the calls made on t
    handled, \* the errors handed to opt.ErrorHandler, in order
    nputs,   \* put calls made so far
    faults   \* I/O failures injected so far

vars == <<opt, db, disk, tx, th, handled, nputs, faults>>

(* ------------------------------ helpers ------------------------------- *)
\* compare(a, b) of two keys (bytes.Compare): negative, zero or positive
compare(a, b) == IF a < b THEN -1 ELSE IF a > b THEN 1 ELSE 0

\* getNewKey(bucket, key): the namespaced key of sparse mode
getNewKey(bucket, key) == <<bucket, key>>

RECURSIVE SumSize(_)
\* the byte length of a buffer holding the encoded entries es
SumSize(es) == IF es = <<>> THEN 0 ELSE Head(es).size + SumSize(Tail(es))

\* sync.RWMutex: Lock, RLock and their guards
CanLock(mu) == ~mu.w /\ mu.r = 0
CanRLock(mu) == ~mu.w

\* the in-memory indexes a reader sees
Indexes(d) == [BTreeIdx |-> d.BTreeIdx, tm |-> d.tm,
               ActiveBPTreeIdx |-> d.ActiveBPTreeIdx]

NilFile == [nil |-> TRUE, fileID |-> 0, writeOff |-> 0, ActualSize |-> 0,
            released |-> FALSE]
\* NewDataFile: a fresh segment, nothing written
NewDataFile(fid) == [nil |-> FALSE, fileID |-> fid, writeOff |-> 0,
                     ActualSize |-> 0, released |-> FALSE]

NoMeta == [ok |-> FALSE, start |-> 0, end |-> 0]

(* ------------------------------- Init --------------------------------- *)
\* the configurations checked: a B-tree mode and the sparse mode, with and
\* without fsync on write, both file modes, with and without an ErrorHandler
Options ==
    {[EntryIdxMode |-> HintKeyValAndRAMIdxMode, SyncEnable |-> FALSE,
      RWMode |-> "MMap", ErrorHandler |-> TRUE],
     [EntryIdxMode |-> HintBPTSparseIdxMode, SyncEnable |-> TRUE,
      RWMode |-> "FileIO", ErrorHandler |-> FALSE]}

InitDB == [closed |-> FALSE,
           mu |-> [w |-> FALSE, r |-> 0],
           MaxFileID |-> 0,
           ActiveFile |-> NewDataFile(0),
           KeyCount |-> 0,
           BTreeIdx |-> [b \in Buckets |-> [ok |-> FALSE, items |-> {}]],
           tm |-> {},
           BPTreeKeyEntryPosMap |-> {},
           ActiveBPTreeIdx |-> {},
           ActiveCommittedTxIdsIdx |-> {},
           BPTreeRootIdxes |-> <<>>,
           bucketMetas |-> [b \in Buckets |-> NoMeta]]

InitDisk == [seg |-> {},
             bpt |-> {},
             bptRoot |-> {},
             bptTxID |-> {},
             bptRootTxID |-> {},
             bucketMeta |-> [b \in Buckets |-> NoMeta]]

\* a Tx that newTx has not built yet
NoTx == [id |-> 0, db |-> FALSE, writable |-> FALSE, status |-> txStatusUnset,
         pendingWrites |-> <<>>, ReservedStoreTxIDIdxes |-> {}, size |-> 0]

\* what a Commit found when it began: the indexes, the active segment,
\* MaxFileID and the files
NoSnap == [idx |-> Indexes(InitDB), file |-> NewDataFile(0), MaxFileID |-> 0,
           disk |-> InitDisk]

\* op: the last call of the caller; cst, rst: the status the last Commit and
\* the last Rollback found when they were called; unlocks: the unlocks done;
\* cw: the txnCb a CommitWith call handed to its goroutine ("none" before the
\* call); cbs: the calls of the user callback
InitTh == [pc |-> "none", rpc |-> "idle", ret |-> NoRet, rret |-> NoRet,
           op |-> "none", cst |-> txStatusUnset, rst |-> txStatusUnset,
           err |-> NoErr, panicking |-> FALSE,
           i |-> 0, writesLen |-> 0, buff |-> <<>>, bucketMetaTemp |-> NoMeta,
           snap |-> NoSnap, unlocks |-> 0, cw |-> "none", cbs |-> 0]

Init ==
    /\ opt \in Options
    /\ db = InitDB
    /\ disk = InitDisk
    /\ tx = [t \in Txs |-> NoTx]
    /\ th = [t \in Txs |-> InitTh]
    /\ handled = <<>>
    /\ nputs = 0
    /\ faults = 0

(* ------------------------ status cell of a Tx ------------------------- *)
isRunning(t) == tx[t].status = txStatusRunning
isCommitting(t) == tx[t].status = txStatusCommitting
isClosed(t) == tx[t].status = txStatusClosed

(* ------------------------------ DB.Begin ------------------------------ *)
\* newTx: a Tx with a fresh id (the id generator is taken to be collision
\* free), db set, no pending writes
newTx(t, writable) ==
    [id |-> t, db |-> TRUE, writable |-> writable, status |-> txStatusUnset,
     pendingWrites |-> <<>>, ReservedStoreTxIDIdxes |-> {}, size |-> 0]

\* Begin, line 124: the call starts and builds the Tx
BeginNew(t, writable) ==
    /\ th[t].pc = "none"
    /\ IF t = 1 THEN TRUE ELSE th[t - 1].pc \notin {"none", "lock"}
    /\ tx' = [tx EXCEPT ![t] = newTx(t, writable)]
    /\ th' = [th EXCEPT ![t].pc = "lock", ![t].op = "Begin"]
    /\ UNCHANGED <<opt, db, disk, handled, nputs, faults>>

\* tx.lock(): blocks until db.mu can be taken
lock(t) ==
    /\ th[t].pc = "lock"
    /\ IF tx[t].writable
       THEN /\ CanLock(db.mu)
            /\ db' = [db EXCEPT !.mu.w = TRUE]
       ELSE /\ CanRLock(db.mu)
            /\ db' = [db EXCEPT !.mu.r = @ + 1]
    /\ th' = [th EXCEPT ![t].pc = "setRunning"]
    /\ UNCHANGED <<opt, disk, tx, handled, nputs, faults>>

\* Begin, lines 130-137: setStatusRunning, then the check of db.closed
BeginSetRunning(t) ==
    /\ th[t].pc = "setRunning"
    /\ tx' = [tx EXCEPT ![t].status = txStatusRunning]
    /\ th' = [th EXCEPT ![t].pc = IF db.closed THEN "beginUnlock" ELSE "idle",
                        ![t].ret = IF db.closed THEN NoRet ELSE NoErr]
    /\ UNCHANGED <<opt, db, disk, handled, nputs, faults>>

\* db.mu.Unlock / RUnlock as tx.unlock() calls it
Unlocked(mu, writable) ==
    IF writable THEN [mu EXCEPT !.w = FALSE] ELSE [mu EXCEPT !.r = @ - 1]
\* whether the unlock finds the mutex held in the mode it releases
Held(mu, writable) == IF writable THEN mu.w ELSE mu.r > 0

\* Begin, line 132: the DB was closed, tx.unlock()
BeginUnlock(t) ==
    /\ th[t].pc = "beginUnlock"
    /\ db' = [db EXCEPT !.mu = Unlocked(@, tx[t].writable)]
    /\ th' = [th EXCEPT ![t].pc = "beginSetClosed", ![t].unlocks = @ + 1]
    /\ UNCHANGED <<opt, disk, tx, handled, nputs, faults>>

\* Begin, lines 133-134: setStatusClosed, return nil, ErrDBClosed
BeginSetClosed(t) ==
    /\ th[t].pc = "beginSetClosed"
    /\ tx' = [tx EXCEPT ![t].status = txStatusClosed]
    /\ th' = [th EXCEPT ![t].pc = "gone", ![t].ret = ErrDBClosed]
    /\ UNCHANGED <<opt, db, disk, handled, nputs, faults>>

\* DB.Close as far as Begin sees it: db.closed is set while nobody holds db.mu
CloseDB ==
    /\ ~db.closed
    /\ CanLock(db.mu)
    /\ db' = [db EXCEPT !.closed = TRUE]
    /\ UNCHANGED <<opt, disk, tx, th, handled, nputs, faults>>

(* ------------------------------- Tx.put ------------------------------- *)
\* checkSize: ErrTxnTooBig once a batch bound is reached
checkSize(t) ==
    IF Len(tx[t].pendingWrites) >= MaxBatchCount \/ tx[t].size >= MaxBatchSize
    THEN ErrTxnTooBig ELSE NoErr

\* the caller of t is between two calls
Idle(t) == th[t].pc = "idle" /\ th[t].rpc = "idle"

\* NewEntry with the meta data put gives it
NewEntry(t, bucket, key, size, ttl, expired, flag, ds) ==
    [bucket |-> bucket, key |-> key, size |-> size, ttl |-> ttl,
     expired |-> expired, flag |-> flag, ds |-> ds, status |-> UnCommitted,
     txid |-> tx[t].id, idx |-> Len(tx[t].pendingWrites) + 1]

\* put, lines 838-860
put(t, bucket, key, size, ttl, expired, flag, ds) ==
    /\ th[t].pc = "idle"
    /\ nputs < MaxWrites
    /\ nputs' = nputs + 1
    /\ IF ~tx[t].db
       THEN /\ th' = [th EXCEPT ![t].ret = ErrTxClosed, ![t].op = "Put"]
            /\ tx' = tx
       ELSE IF ~tx[t].writable
       THEN /\ th' = [th EXCEPT ![t].ret = ErrTxNotWritable, ![t].op = "Put"]
            /\ tx' = tx
       ELSE /\ tx' = [tx EXCEPT
                  ![t].pendingWrites =
                      Append(@, NewEntry(t, bucket, key, size, ttl, expired, flag, ds)),
                  ![t].size = @ + size]
            /\ th' = [th EXCEPT ![t].ret = NoErr, ![t].op = "Put"]
    /\ UNCHANGED <<opt, db, disk, handled, faults>>

\* Put, lines 825-827
Put(t) ==
    \E bucket \in HotBuckets, key \in HotKeys, size \in EntrySizes :
        put(t, bucket, key, size, Persistent, FALSE, DataSetFlag, DataStructureTree)

\* the entries the callers of put make: Put (persistent or with a ttl),
\* PutWithTimestamp with a timestamp whose ttl has passed, Delete, and the
\* delete of a Tree bucket
EntryKinds ==
    {[ttl |-> Persistent, expired |-> FALSE, flag |-> DataSetFlag, ds |-> DataStructureTree],
     [ttl |-> 1, expired |-> FALSE, flag |-> DataSetFlag, ds |-> DataStructureTree],
     [ttl |-> 1, expired |-> TRUE, flag |-> DataSetFlag, ds |-> DataStructureTree],
     [ttl |-> Persistent, expired |-> FALSE, flag |-> DataDeleteFlag, ds |-> DataStructureTree],
     [ttl |-> Persistent, expired |-> FALSE, flag |-> DataBPTreeBucketDeleteFlag,
      ds |-> DataStructureNone]}

\* put, lines 838-860, as called for an entry of any kind, of the smallest
\* size
PutKind(t) ==
    \E bucket \in Buckets, key \in Keys, k \in EntryKinds :
        put(t, bucket, key, 1, k.ttl, k.expired, k.flag, k.ds)

(* ----------------------------- Tx.Rollback ---------------------------- *)
\* Rollback, lines 774-777: tx.db == nil
RollbackCheckDB(t) ==
    /\ th[t].rpc = "idle"
    /\ IF ~tx[t].db
       THEN /\ tx' = [tx EXCEPT ![t].status = txStatusClosed]
            /\ th' = [th EXCEPT ![t].rret = ErrDBClosed, ![t].rst = tx[t].status]
       ELSE /\ tx' = tx
            /\ th' = [th EXCEPT ![t].rpc = "isCommitting", ![t].rret = NoRet,
                                ![t].rst = tx[t].status]
    /\ UNCHANGED <<opt, db, disk, handled, nputs, faults>>

\* Rollback without the test of lines 778-780: it goes on whatever the status
RollbackIgnoresCommitting(t) ==
    /\ th[t].rpc = "isCommitting"
    /\ th' = [th EXCEPT ![t].rpc = "isClosed", ![t].rret = NoRet]
    /\ UNCHANGED <<opt, db, disk, tx, handled, nputs, faults>>

\* Rollback, lines 778-780
RollbackIsCommitting(t) ==
    /\ th[t].rpc = "isCommitting"
    /\ th' = [th EXCEPT
           ![t].rpc = IF isCommitting(t) THEN "idle" ELSE "isClosed",
           ![t].rret = IF isCommitting(t) THEN ErrCannotRollbackACommittingTx ELSE NoRet]
    /\ UNCHANGED <<opt, db, disk, tx, handled, nputs, faults>>

\* Rollback, lines 782-784
RollbackIsClosed(t) ==
    /\ th[t].rpc = "isClosed"
    /\ th' = [th EXCEPT
           ![t].rpc = IF isClosed(t) THEN "idle" ELSE "setClosed",
           ![t].rret = IF isClosed(t) THEN ErrCannotRollbackAClosedTx ELSE NoRet]
    /\ UNCHANGED <<opt, db, disk, tx, handled, nputs, faults>>

\* Rollback, line 786
RollbackSetClosed(t) ==
    /\ th[t].rpc = "setClosed"
    /\ tx' = [tx EXCEPT ![t].status = txStatusClosed]
    /\ th' = [th EXCEPT ![t].rpc = "unlock"]
    /\ UNCHANGED <<opt, db, disk, handled, nputs, faults>>

\* Rollback, line 787: tx.unlock()
RollbackUnlock(t) ==
    /\ th[t].rpc = "unlock"
    /\ IF ~tx[t].db
       THEN /\ th' = [th EXCEPT ![t].rpc = "dead", ![t].rret = Panic]
            /\ db' = db
       ELSE IF ~Held(db.mu, tx[t].writable)
       THEN /\ th' = [th EXCEPT ![t].rpc = "dead", ![t].rret = Fatal]
            /\ db' = db
       ELSE /\ db' = [db EXCEPT !.mu = Unlocked(@, tx[t].writable)]
            /\ th' = [th EXCEPT ![t].rpc = "clear", ![t].unlocks = @ + 1]
    /\ UNCHANGED <<opt, disk, tx, handled, nputs, faults>>

\* Rollback, lines 789-792
RollbackClear(t) ==
    /\ th[t].rpc = "clear"
    /\ tx' = [tx EXCEPT ![t].db = FALSE, ![t].pendingWrites = <<>>]
    /\ th' = [th EXCEPT ![t].rpc = "idle", ![t].rret = NoErr]
    /\ UNCHANGED <<opt, db, disk, handled, nputs, faults>>

(* --------------------------- Tx.writeData ----------------------------- *)
\* the entries of data with their place in file fid, the first at offset off
\* a WriteAt that puts every entry of data at offset off
PlaceAllAtStart(data, fid, off) ==
    {[fid |-> fid, off |-> off, e |-> data[j]] : j \in 1..Len(data)}

RECURSIVE Place(_, _, _)
Place(data, fid, off) ==
    IF data = <<>> THEN {}
    ELSE {[fid |-> fid, off |-> off, e |-> Head(data)]}
         \cup Place(Tail(data), fid, off + Head(data).size)

\* ActiveFile.WriteAt(data, off): what the segment files hold afterwards; bytes
\* written over older bytes replace them
WriteAt(seg, data, fid, off) ==
    LET hi == off + SumSize(data)
    IN {r \in seg : r.fid # fid \/ r.off + r.e.size <= off \/ r.off >= hi}
       \cup Place(data, fid, off)

\* a context c is the state one Commit works on: db, disk, the Tx, the commit
\* buffer, bucketMetaTemp, the error to return, and the faults that struck
Fail(c, e) == [c EXCEPT !.err = e]
Struck(c, e) == [c EXCEPT !.err = e, !.faults = @ + 1]
\* the next statement runs unless the last one returned an error or panicked
Try(c, F(_)) == IF c.err # NoErr \/ c.panicking THEN c ELSE F(c)

\* writeData, lines 755-760: WriteAt went through
Written(c, data) ==
    [c EXCEPT
        !.disk.seg = WriteAt(@, data, c.db.ActiveFile.fileID, c.db.ActiveFile.ActualSize),
        !.db.ActiveFile.writeOff = @ + SumSize(data),
        !.db.ActiveFile.ActualSize = @ + SumSize(data)]

\* writeData, lines 743-770.  f names the I/O call that fails in this pass
\* (site is the call site, line 284 or line 310); a failed WriteAt leaves the
\* first f.k entries of data in the file; a released handle cannot be
\* written.
writeData(c, data, site, f) ==
    IF Len(data) = 0 THEN c
    ELSE IF c.db.ActiveFile.ActualSize + SumSize(data) > SegmentSize
    THEN Fail(c, ErrNoSpace)
    ELSE IF c.db.ActiveFile.released THEN Fail(c, ErrIO)
    ELSE IF f.at = site /\ f.op = "WriteAt" /\ f.k < Len(data)
    THEN Struck([c EXCEPT !.disk.seg =
                    WriteAt(@, SubSeq(data, 1, f.k), c.db.ActiveFile.fileID,
                            c.db.ActiveFile.ActualSize)],
                ErrIO)
    ELSE IF opt.SyncEnable /\ f.at = site /\ f.op = "Sync"
    THEN Struck(Written(c, data), ErrIO)
    ELSE Written(c, data)

(* ------------------------ Tx.rotateActiveFile ------------------------- *)
\* lines 680-688: Sync in MMap mode without SyncEnable, then Release
rotateRelease(c, f) ==
    IF ~opt.SyncEnable /\ opt.RWMode = "MMap" /\ f.at = "rotate" /\ f.op = "Sync"
    THEN Struck(c, ErrIO)
    ELSE IF f.at = "rotate" /\ f.op = "Release" THEN Struck(c, ErrIO)
    ELSE [c EXCEPT !.db.ActiveFile.released = TRUE]

\* lines 715-729: the root index is noted, the active trees are reset, the
\* committed-TxID tree is reserved under fID
rotateReserve(c, fID) ==
    [c EXCEPT
        !.disk.bptRoot = @ \cup {fID},
        !.db.BPTreeRootIdxes = Append(@, fID),
        !.db.BPTreeKeyEntryPosMap = {},
        !.db.ActiveBPTreeIdx = {},
        !.tx.ReservedStoreTxIDIdxes =
            {r \in @ : r.fID # fID}
            \cup {[fID |-> fID, ids |-> c.db.ActiveCommittedTxIdsIdx]},
        !.db.ActiveCommittedTxIdsIdx = {}]

\* the sparse-mode part of rotateActiveFile, lines 690-730
rotateSparse(c, fID, f) ==
    IF opt.EntryIdxMode # HintBPTSparseIdxMode THEN c
    ELSE IF f.at = "rotate" /\ f.op = "WriteNodes" THEN Struck(c, ErrIO)
    ELSE IF f.at = "rotate" /\ f.op = "Persistence"
    THEN Struck([c EXCEPT !.disk.bpt = @ \cup {fID}], ErrIO)
    ELSE rotateReserve([c EXCEPT !.disk.bpt = @ \cup {fID}], fID)

\* lines 732-740 with a new segment that takes the fileID of the old one
rotateOpenSameID(c, f) ==
    IF f.at = "rotate" /\ f.op = "getDataFile"
    THEN Struck([c EXCEPT !.db.ActiveFile = NilFile], ErrIO)
    ELSE [c EXCEPT !.db.ActiveFile = NewDataFile(c.db.ActiveFile.fileID)]

\* lines 732-740: the new active segment; a failed getDataFile leaves
\* db.ActiveFile nil
rotateOpen(c, f) ==
    IF f.at = "rotate" /\ f.op = "getDataFile"
    THEN Struck([c EXCEPT !.db.ActiveFile = NilFile], ErrIO)
    ELSE [c EXCEPT !.db.ActiveFile = NewDataFile(c.db.MaxFileID)]

\* rotateActiveFile, lines 675-741
rotateActiveFile(c, f) ==
    Try(Try(rotateRelease([c EXCEPT !.db.MaxFileID = @ + 1], f),
            LAMBDA x : rotateSparse(x, c.db.MaxFileID, f)),
        LAMBDA x : rotateOpen(x, f))

(* ---------------------- sparse-mode bucket meta ----------------------- *)
\* buildTempBucketMetaIdx, lines 378-395
buildTempBucketMetaIdx(key, bucketMetaTemp) ==
    IF ~bucketMetaTemp.ok THEN [ok |-> TRUE, start |-> key, end |-> key]
    ELSE [ok |-> TRUE,
          start |-> IF compare(bucketMetaTemp.start, key) > 0
                    THEN key ELSE bucketMetaTemp.start,
          end |-> IF compare(bucketMetaTemp.end, key) < 0
                  THEN key ELSE bucketMetaTemp.end]

\* buildBucketMetaIdx, lines 398-421: the bucket's meta widened by
\* bucketMetaTemp
WidenedMeta(old, tmp) ==
    IF ~old.ok THEN [ok |-> TRUE, start |-> tmp.start, end |-> tmp.end]
    ELSE [ok |-> TRUE,
          start |-> IF compare(old.start, tmp.start) > 0 THEN tmp.start ELSE old.start,
          end |-> IF compare(old.end, tmp.end) < 0 THEN tmp.end ELSE old.end]

\* buildBucketMetaIdx, lines 423-440: the file is written and the cache set
persistBucketMeta(c, bucket, new, f) ==
    IF f.at = "meta" /\ f.op \in {"OpenFile", "WriteAt"} THEN Struck(c, ErrIO)
    ELSE IF opt.SyncEnable /\ f.at = "meta" /\ f.op = "Sync"
    THEN Struck([c EXCEPT !.disk.bucketMeta[bucket] = new], ErrIO)
    ELSE [c EXCEPT !.disk.bucketMeta[bucket] = new, !.db.bucketMetas[bucket] = new]

\* buildBucketMetaIdx, lines 397-443.  A cached bucketMeta is changed in
\* place (it is a pointer), before the file is written.
buildBucketMetaIdx(c, bucket, f) ==
    IF WidenedMeta(c.db.bucketMetas[bucket], c.bucketMetaTemp) = c.db.bucketMetas[bucket]
    THEN c
    ELSE persistBucketMeta(
             IF c.db.bucketMetas[bucket].ok
             THEN [c EXCEPT !.db.bucketMetas[bucket] = WidenedMeta(@, c.bucketMetaTemp)]
             ELSE c,
             bucket, WidenedMeta(c.db.bucketMetas[bucket], c.bucketMetaTemp), f)

(* --------------------- sparse-mode committed TxIDs -------------------- *)
\* lines 454-484: the reserved trees in `inserted` take txID, those in
\* `nodes` are written to BPTTxID-<fID>, those in `roots` get their
\* BPTRootTxID-<fID>
storeReserved(c, txID, inserted, nodes, roots) ==
    [c EXCEPT
        !.tx.ReservedStoreTxIDIdxes =
            {[fID |-> r.fID,
              ids |-> IF r.fID \in inserted THEN r.ids \cup {txID} ELSE r.ids] : r \in @},
        !.disk.bptTxID =
            {r \in @ : r.fID \notin nodes}
            \cup {[fID |-> r.fID, ids |-> r.ids \cup {txID}] :
                     r \in {x \in c.tx.ReservedStoreTxIDIdxes : x.fID \in nodes}},
        !.disk.bptRootTxID = @ \cup roots]

\* the fIDs of the reserved trees
ReservedOf(c) == {r.fID : r \in c.tx.ReservedStoreTxIDIdxes}

\* buildTxIDRootIdx, lines 454-484.  The range over ReservedStoreTxIDIdxes
\* visits the reserved trees in any order: a failure at tree f.fid comes
\* after the trees of f.done were written.
buildReserved(c, txID, f) ==
    IF f.at = "txidLoop" /\ f.fid \in ReservedOf(c) /\ f.done \subseteq ReservedOf(c)
    THEN Struck(storeReserved(c, txID,
                    IF f.op = "Insert" THEN f.done ELSE f.done \cup {f.fid},
                    IF f.op = "RootWriteNodes" THEN f.done \cup {f.fid} ELSE f.done,
                    f.done),
                ErrIO)
    ELSE storeReserved(c, txID, ReservedOf(c), ReservedOf(c), ReservedOf(c))

\* buildTxIDRootIdx, lines 446-487
buildTxIDRootIdx(c, txID, f) ==
    IF f.at = "txid" /\ f.op = "Insert" THEN Struck(c, ErrIO)
    ELSE buildReserved([c EXCEPT !.db.ActiveCommittedTxIdsIdx = @ \cup {txID}], txID, f)

(* ---------------------------- Tx.buildTreeIdx ------------------------- *)
\* a BTree of db.BTreeIdx after Insert(key, value, hint) or Delete(key)
BTreeInsert(bt, item) ==
    [ok |-> TRUE, items |-> {x \in bt.items : x.key # item.key} \cup {item}]
BTreeDelete(bt, key) ==
    [ok |-> TRUE, items |-> {x \in bt.items : x.key # key}]

\* buildTreeIdx, lines 523-566, the modes that keep a B-tree per bucket; an
\* entry whose timestamp + ttl has passed (expired) returns at line 553
buildBTreeIdx(c, bucket, hint) ==
    IF hint.meta.flag = DataSetFlag
    THEN IF hint.meta.ttl # Persistent /\ hint.meta.expired
         THEN [c EXCEPT !.db.BTreeIdx[bucket].ok = TRUE]
         ELSE [c EXCEPT
                  !.db.tm = IF hint.meta.ttl # Persistent
                            THEN @ \cup {<<bucket, hint.key>>}
                            ELSE @ \ {<<bucket, hint.key>>},
                  !.db.BTreeIdx[bucket] =
                      BTreeInsert(@, [key |-> hint.key, hint |-> hint,
                                      value |-> opt.EntryIdxMode = HintKeyValAndRAMIdxMode])]
    ELSE IF hint.meta.flag = DataDeleteFlag
    THEN [c EXCEPT !.db.tm = @ \ {<<bucket, hint.key>>},
                   !.db.BTreeIdx[bucket] = BTreeDelete(@, hint.key)]
    ELSE [c EXCEPT !.db.BTreeIdx[bucket].ok = TRUE]

\* buildTreeIdx, lines 516-568.  hint is NewHint() of line 334.
buildTreeIdx(c, bucket, hint) ==
    IF opt.EntryIdxMode = HintBPTSparseIdxMode
    THEN [c EXCEPT !.db.ActiveBPTreeIdx =
             {x \in @ : x.key # getNewKey(bucket, hint.key)}
             \cup {[hint EXCEPT !.key = getNewKey(bucket, hint.key)]}]
    ELSE buildBTreeIdx(c, bucket, hint)

(* --------------------------- Tx.buildNotDSIdxes ----------------------- *)
\* the buckets whose B-tree the bucket-delete entries of ws remove
DeletedBuckets(ws) ==
    {ws[j].bucket : j \in {j \in 1..Len(ws) :
        ws[j].ds = DataStructureNone /\ ws[j].flag = DataBPTreeBucketDeleteFlag}}

\* lines 489-513 with the bucket deletes applied at their position in
\* pendingWrites: a bucket written after its bucket-delete entry is kept
buildNotDSIdxesInOrder(c) ==
    [c EXCEPT
        !.db.BTreeIdx = [b \in Buckets |->
            IF /\ b \in DeletedBuckets(c.tx.pendingWrites)
               /\ c.tx.pendingWrites[Len(c.tx.pendingWrites)].bucket = b
               /\ c.tx.pendingWrites[Len(c.tx.pendingWrites)].ds = DataStructureNone
            THEN [ok |-> FALSE, items |-> {}] ELSE @[b]],
        !.db.KeyCount = @ + Len(c.tx.pendingWrites)]

\* buildNotDSIdxes, lines 489-513: the bucket deletes of the transaction,
\* and KeyCount
buildNotDSIdxes(c) ==
    [c EXCEPT
        !.db.BTreeIdx = [b \in Buckets |->
            IF b \in DeletedBuckets(c.tx.pendingWrites)
            THEN [ok |-> FALSE, items |-> {}] ELSE @[b]],
        !.db.KeyCount = @ + Len(c.tx.pendingWrites)]

(* ------------------------------ Tx.Commit ----------------------------- *)
\* lines 273-292 with a test of line 276 that leaves the commit buffer out
commitRotateNoBuffer(c, i, f) ==
    IF ~c.tx.db \/ i > Len(c.tx.pendingWrites) THEN [c EXCEPT !.panicking = TRUE]
    ELSE IF c.tx.pendingWrites[i].size > SegmentSize THEN Fail(c, ErrDataSizeExceed)
    ELSE IF c.db.ActiveFile.nil THEN [c EXCEPT !.panicking = TRUE]
    ELSE IF c.db.ActiveFile.ActualSize + c.tx.pendingWrites[i].size > SegmentSize
    THEN Try(writeData(c, c.buff, "flush", f),
             LAMBDA x : rotateActiveFile([x EXCEPT !.buff = <<>>], f))
    ELSE c

\* Commit, lines 273-292: the size check of entry i, and the flush and the
\* rotation when the active segment cannot take it.  A nil tx.db, an index
\* past pendingWrites or a nil db.ActiveFile is a runtime panic.
commitRotate(c, i, f) ==
    IF ~c.tx.db \/ i > Len(c.tx.pendingWrites) THEN [c EXCEPT !.panicking = TRUE]
    ELSE IF c.tx.pendingWrites[i].size > SegmentSize THEN Fail(c, ErrDataSizeExceed)
    ELSE IF c.db.ActiveFile.nil THEN [c EXCEPT !.panicking = TRUE]
    ELSE IF c.db.ActiveFile.ActualSize + SumSize(c.buff) + c.tx.pendingWrites[i].size
            > SegmentSize
    THEN Try(writeData(c, c.buff, "flush", f),
             LAMBDA x : rotateActiveFile([x EXCEPT !.buff = <<>>], f))
    ELSE c

\* lines 294-306 with the first entry, not the last, marked Committed
commitEncodeMarksFirst(c, i) ==
    [c EXCEPT
        !.offset = c.db.ActiveFile.writeOff + SumSize(c.buff),
        !.db.BPTreeKeyEntryPosMap =
            IF c.tx.pendingWrites[i].ds = DataStructureTree
            THEN {x \in @ : x.key # getNewKey(c.tx.pendingWrites[i].bucket,
                                               c.tx.pendingWrites[i].key)}
                 \cup {[key |-> getNewKey(c.tx.pendingWrites[i].bucket,
                                          c.tx.pendingWrites[i].key),
                        pos |-> c.db.ActiveFile.writeOff + SumSize(c.buff)]}
            ELSE @,
        !.tx.pendingWrites[i].status = IF i = 1 THEN Committed ELSE @,
        !.buff = Append(@, [c.tx.pendingWrites[i] EXCEPT !.status =
                     IF i = 1 THEN Committed ELSE @])]

\* Commit, lines 294-306: entry i gets its offset (kept in c.offset), is
\* marked Committed if it is the last, and is encoded into the buffer
commitEncode(c, i) ==
    [c EXCEPT
        !.offset = c.db.ActiveFile.writeOff + SumSize(c.buff),
        !.db.BPTreeKeyEntryPosMap =
            IF c.tx.pendingWrites[i].ds = DataStructureTree
            THEN {x \in @ : x.key # getNewKey(c.tx.pendingWrites[i].bucket,
                                               c.tx.pendingWrites[i].key)}
                 \cup {[key |-> getNewKey(c.tx.pendingWrites[i].bucket,
                                          c.tx.pendingWrites[i].key),
                        pos |-> c.db.ActiveFile.writeOff + SumSize(c.buff)]}
            ELSE @,
        !.tx.pendingWrites[i].status =
            IF i = Len(c.tx.pendingWrites) THEN Committed ELSE @,
        !.buff = Append(@, [c.tx.pendingWrites[i] EXCEPT !.status =
                     IF i = Len(c.tx.pendingWrites) THEN Committed ELSE @])]

\* Commit, lines 309-313: the last entry flushes the buffer
commitFlush(c, i, f) ==
    IF i = Len(c.tx.pendingWrites) THEN writeData(c, c.buff, "last", f) ELSE c

\* Commit, lines 315-332: the sparse-mode bucket meta and committed TxIDs
commitSparse(c, i, f) ==
    IF opt.EntryIdxMode # HintBPTSparseIdxMode THEN c
    ELSE IF i # Len(c.tx.pendingWrites)
    THEN [c EXCEPT !.bucketMetaTemp =
             buildTempBucketMetaIdx(c.tx.pendingWrites[i].key, @)]
    ELSE Try(buildTxIDRootIdx(
                 [c EXCEPT !.bucketMetaTemp =
                     buildTempBucketMetaIdx(c.tx.pendingWrites[i].key, @)],
                 c.tx.pendingWrites[i].txid, f),
             LAMBDA x : buildBucketMetaIdx(x, c.tx.pendingWrites[i].bucket, f))

\* lines 334-351 with a hint whose dataPos leaves the commit buffer out
commitIndexAtWriteOff(c, i) ==
    IF c.tx.pendingWrites[i].ds = DataStructureTree
    THEN buildTreeIdx(c, c.tx.pendingWrites[i].bucket,
             [key |-> c.tx.pendingWrites[i].key,
              fileID |-> c.db.ActiveFile.fileID,
              meta |-> c.tx.pendingWrites[i],
              dataPos |-> c.db.ActiveFile.writeOff])
    ELSE c

\* Commit, lines 334-351: the hint of entry i, and its index by data
\* structure
commitIndex(c, i) ==
    IF c.tx.pendingWrites[i].ds = DataStructureTree
    THEN buildTreeIdx(c, c.tx.pendingWrites[i].bucket,
             [key |-> c.tx.pendingWrites[i].key,
              fileID |-> c.db.ActiveFile.fileID,
              meta |-> c.tx.pendingWrites[i],
              dataPos |-> c.offset])
    ELSE c

\* Commit, line 354, after the last pass of the loop
commitDone(c, i) ==
    IF i = Len(c.tx.pendingWrites) THEN buildNotDSIdxes(c) ELSE c

\* one pass of the loop of Commit, lines 272-352, and after the last pass
\* buildNotDSIdxes, line 354
commitLoop(c, i, f) ==
    Try(Try(Try(Try(Try(commitRotate(c, i, f),
                        LAMBDA x : commitEncode(x, i)),
                    LAMBDA x : commitFlush(x, i, f)),
                LAMBDA x : commitSparse(x, i, f)),
            LAMBDA x : commitIndex(x, i)),
        LAMBDA x : commitDone(x, i))

\* the segments whose committed-TxID tree t holds, or will hold after a
\* rotation in this pass
ReservedIDs(t) == {x.fID : x \in tx[t].ReservedStoreTxIDIdxes} \cup {db.MaxFileID}

\* the I/O calls of one pass that may fail
NoFault == [at |-> "none", op |-> "none", k |-> 0, fid |-> 0, done |-> {}]
FaultsOf(t) ==
    {NoFault}
    \cup {[NoFault EXCEPT !.at = site, !.op = "WriteAt", !.k = k] :
             site \in {"flush", "last"}, k \in 0..(Len(tx[t].pendingWrites) - 1)}
    \cup {[NoFault EXCEPT !.at = site, !.op = "Sync"] : site \in {"flush", "last"}}
    \cup {[NoFault EXCEPT !.at = "rotate", !.op = op] :
             op \in {"Sync", "Release", "WriteNodes", "Persistence", "getDataFile"}}
    \cup {[NoFault EXCEPT !.at = "txid", !.op = "Insert"]}
    \cup UNION {{[NoFault EXCEPT !.at = "txidLoop", !.op = op, !.fid = fid, !.done = d] :
                    op \in {"Insert", "WriteNodes", "RootWriteNodes"},
                    d \in SUBSET (ReservedIDs(t) \ {fid})} :
                 fid \in ReservedIDs(t)}
    \cup {[NoFault EXCEPT !.at = "meta", !.op = op] :
             op \in {"OpenFile", "WriteAt", "Sync"}}

\* Commit, lines 243-245: the deferred cleanup is set up, tx.isClosed()
CommitCheckClosed(t) ==
    /\ th[t].pc = "idle"
    /\ th' = [th EXCEPT
           ![t].pc = IF isClosed(t) THEN "deferHandle" ELSE "checkDB",
           ![t].err = IF isClosed(t) THEN ErrCannotCommitAClosedTx ELSE NoErr,
           ![t].ret = NoRet, ![t].panicking = FALSE,
           ![t].op = "Commit", ![t].cst = tx[t].status]
    /\ UNCHANGED <<opt, db, disk, tx, handled, nputs, faults>>

\* Commit, lines 247-260: tx.db == nil, setStatusCommitting, writesLen
CommitCheckDB(t) ==
    /\ th[t].pc = "checkDB"
    /\ IF ~tx[t].db
       THEN /\ tx' = [tx EXCEPT ![t].status = txStatusClosed]
            /\ th' = [th EXCEPT ![t].pc = "deferHandle", ![t].err = ErrDBClosed]
       ELSE /\ tx' = [tx EXCEPT ![t].status = txStatusCommitting]
            /\ th' = [th EXCEPT
                   ![t].pc = IF Len(tx[t].pendingWrites) = 0
                             THEN "deferSetClosed" ELSE "loop",
                   ![t].writesLen = Len(tx[t].pendingWrites),
                   ![t].i = 1, ![t].buff = <<>>, ![t].bucketMetaTemp = NoMeta,
                   ![t].snap = [idx |-> Indexes(db), file |-> db.ActiveFile,
                                MaxFileID |-> db.MaxFileID, disk |-> disk]]
    /\ UNCHANGED <<opt, db, disk, handled, nputs, faults>>

\* the context of the Commit of t
Context(t) ==
    [db |-> db, disk |-> disk, tx |-> tx[t], buff |-> th[t].buff,
     bucketMetaTemp |-> th[t].bucketMetaTemp, offset |-> 0, err |-> NoErr,
     panicking |-> FALSE, faults |-> 0]

\* the loop of t ends after this pass
Over(t, c) == c.err # NoErr \/ c.panicking \/ th[t].i = th[t].writesLen

\* the state after a pass that ended in context c; the failure f is one the
\* pass ran into, and within the budget
Pass(t, c, f) ==
    /\ IF f.at = "none" THEN c.faults = 0 ELSE faults < MaxFaults /\ c.faults = 1
    /\ db' = c.db
    /\ disk' = c.disk
    /\ tx' = [tx EXCEPT ![t] = c.tx]
    /\ faults' = faults + c.faults
    /\ th' = [th EXCEPT
           ![t].pc = IF Over(t, c) THEN "deferSetClosed" ELSE "loop",
           ![t].i = IF Over(t, c) THEN @ ELSE @ + 1,
           ![t].buff = c.buff,
           ![t].bucketMetaTemp = c.bucketMetaTemp,
           ![t].err = c.err,
           ![t].panicking = c.panicking]

\* Commit, lines 272-356: one pass of the loop
CommitLoop(t) ==
    /\ th[t].pc = "loop"
    /\ \E f \in FaultsOf(t) : Pass(t, commitLoop(Context(t), th[t].i, f), f)
    /\ UNCHANGED <<opt, handled, nputs>>

\* the deferred calls of lines 269 and 254: commitBuffer.Reset(),
\* setStatusClosed()
CommitDeferSetClosed(t) ==
    /\ th[t].pc = "deferSetClosed"
    /\ tx' = [tx EXCEPT ![t].status = txStatusClosed]
    /\ th' = [th EXCEPT ![t].pc = "deferHandle", ![t].buff = <<>>]
    /\ UNCHANGED <<opt, db, disk, handled, nputs, faults>>

\* the deferred cleanup, lines 230-232, with handleErr, lines 813-817
CommitDeferHandle(t) ==
    /\ th[t].pc = "deferHandle"
    /\ IF th[t].err = NoErr
       THEN /\ th' = [th EXCEPT ![t].pc = "deferUnlock"]
            /\ handled' = handled
       ELSE IF ~tx[t].db
       THEN /\ th' = [th EXCEPT ![t].pc = "dead", ![t].ret = Panic]
            /\ handled' = handled
       ELSE /\ th' = [th EXCEPT ![t].pc = "deferUnlock"]
            /\ handled' = IF opt.ErrorHandler
                          THEN Append(handled, [tx |-> t, err |-> th[t].err])
                          ELSE handled
    /\ UNCHANGED <<opt, db, disk, tx, nputs, faults>>

\* the deferred cleanup without the unlock of line 233 when Commit fails
CommitDeferKeepsLock(t) ==
    /\ th[t].pc = "deferUnlock"
    /\ IF ~tx[t].db
       THEN /\ th' = [th EXCEPT ![t].pc = "dead", ![t].ret = Panic]
            /\ db' = db
       ELSE IF th[t].err # NoErr
       THEN /\ th' = [th EXCEPT ![t].pc = "deferClear"]
            /\ db' = db
       ELSE /\ db' = [db EXCEPT !.mu = Unlocked(@, tx[t].writable)]
            /\ th' = [th EXCEPT ![t].pc = "deferClear", ![t].unlocks = @ + 1]
    /\ UNCHANGED <<opt, disk, tx, handled, nputs, faults>>

\* the deferred cleanup, line 233: tx.unlock()
CommitDeferUnlock(t) ==
    /\ th[t].pc = "deferUnlock"
    /\ IF ~tx[t].db
       THEN /\ th' = [th EXCEPT ![t].pc = "dead", ![t].ret = Panic]
            /\ db' = db
       ELSE IF ~Held(db.mu, tx[t].writable)
       THEN /\ th' = [th EXCEPT ![t].pc = "dead", ![t].ret = Fatal]
            /\ db' = db
       ELSE /\ db' = [db EXCEPT !.mu = Unlocked(@, tx[t].writable)]
            /\ th' = [th EXCEPT ![t].pc = "deferClear", ![t].unlocks = @ + 1]
    /\ UNCHANGED <<opt, disk, tx, handled, nputs, faults>>

\* the deferred cleanup, lines 234-237; then Commit returns err, or the
\* panic of the loop goes on
CommitDeferClear(t) ==
    /\ th[t].pc = "deferClear"
    /\ tx' = [tx EXCEPT ![t].db = FALSE, ![t].pendingWrites = <<>>,
                        ![t].ReservedStoreTxIDIdxes = {}]
    /\ th' = [th EXCEPT
           ![t].pc = IF th[t].panicking THEN "dead" ELSE "idle",
           ![t].ret = IF th[t].panicking THEN Panic ELSE th[t].err]
    /\ UNCHANGED <<opt, db, disk, handled, nputs, faults>>

(* --------------------------- specifications -------------------------- *)
\* a step inside a call that has started
Step(t) ==
    \/ lock(t)
    \/ BeginSetRunning(t)
    \/ BeginUnlock(t)
    \/ BeginSetClosed(t)
    \/ CommitCheckDB(t)
    \/ CommitLoop(t)
    \/ CommitDeferSetClosed(t)
    \/ CommitDeferHandle(t)
    \/ CommitDeferUnlock(t)
    \/ CommitDeferClear(t)
    \/ RollbackIsCommitting(t)
    \/ RollbackIsClosed(t)
    \/ RollbackSetClosed(t)
    \/ RollbackUnlock(t)
    \/ RollbackClear(t)

\* the caller of t is between two calls and t is not finished
Open(t) == Idle(t) /\ tx[t].db

\* Spec: every transaction has one caller, who makes one call at a time and
\* makes no call on a transaction he has committed or rolled back
Next ==
    \/ \E t \in Txs, w \in BOOLEAN : BeginNew(t, w)
    \/ CloseDB
    \/ \E t \in Txs : Step(t)
    \/ \E t \in Txs : Open(t) /\ Put(t)
    \/ \E t \in Txs : Open(t) /\ CommitCheckClosed(t)
    \/ \E t \in Txs : Open(t) /\ RollbackCheckDB(t)

Spec == Init /\ [][Next]_vars

\* Begin has returned t to its caller
Begun(t) == th[t].pc \in {"idle", "checkDB", "loop", "deferSetClosed", "deferHandle",
                          "deferUnlock", "deferClear", "dead"}

\* SpecRace: the calls on a transaction come from two threads, one that puts
\* and commits and one that calls Rollback once, at any time after Begin.
\* The DB stays open and no I/O fails.
InitRace ==
    /\ opt \in Options
    /\ db = InitDB
    /\ disk = InitDisk
    /\ tx = [t \in Txs |-> NoTx]
    /\ th = [t \in Txs |-> InitTh]
    /\ handled = <<>>
    /\ nputs = 0
    /\ faults = MaxFaults

NextRace ==
    \/ \E t \in Txs, w \in BOOLEAN : BeginNew(t, w)
    \/ \E t \in Txs : lock(t) \/ BeginSetRunning(t)
    \/ \E t \in Txs : RollbackIsCommitting(t) \/ RollbackIsClosed(t)
    \/ \E t \in Txs : RollbackSetClosed(t) \/ RollbackUnlock(t) \/ RollbackClear(t)
    \/ \E t \in Txs : CommitCheckDB(t) \/ CommitLoop(t) \/ CommitDeferSetClosed(t)
    \/ \E t \in Txs : CommitDeferHandle(t) \/ CommitDeferUnlock(t)
    \/ \E t \in Txs : CommitDeferClear(t)
    \/ \E t \in Txs : Open(t) /\ Put(t)
    \/ \E t \in Txs : Open(t) /\ CommitCheckClosed(t)
    \/ \E t \in Txs : Begun(t) /\ th[t].rst = txStatusUnset /\ RollbackCheckDB(t)

SpecRace == InitRace /\ [][NextRace]_vars

\* SpecReuse: one caller per transaction, one call at a time, who goes on
\* calling after the transaction is finished
NextReuse ==
    \/ \E t \in Txs, w \in BOOLEAN : BeginNew(t, w)
    \/ CloseDB
    \/ \E t \in Txs : Step(t)
    \/ \E t \in Txs : Idle(t) /\ Put(t)
    \/ \E t \in Txs : Idle(t) /\ CommitCheckClosed(t)
    \/ \E t \in Txs : Idle(t) /\ RollbackCheckDB(t)

SpecReuse == Init /\ [][NextReuse]_vars

\* SpecOpened: as Spec, on a DB that was opened on the files of an earlier
\* run: the active segment holds one entry already, of a transaction of that
\* run
InitOpened ==
    /\ opt \in Options
    /\ db = [InitDB EXCEPT !.ActiveFile.writeOff = SegmentSize - 1,
                           !.ActiveFile.ActualSize = SegmentSize - 1]
    /\ disk = [InitDisk EXCEPT !.seg =
                  {[fid |-> 0, off |-> 0,
                    e |-> [bucket |-> "b2", key |-> 2, size |-> SegmentSize - 1,
                           ttl |-> Persistent, expired |-> FALSE,
                           flag |-> DataSetFlag, ds |-> DataStructureTree,
                           status |-> Committed, txid |-> 0, idx |-> 1]]}]
    /\ tx = [t \in Txs |-> NoTx]
    /\ th = [t \in Txs |-> InitTh]
    /\ handled = <<>>
    /\ nputs = 0
    /\ faults = 0

SpecOpened == InitOpened /\ [][Next]_vars

(* --------------------------- Tx.CommitWith ---------------------------- *)
\* CommitWith, lines 161-182, with a non-nil callback.  With no pending
\* write the goroutine gets a txnCb with err nil and no commit; otherwise
\* commitAndSend (lines 184-195) hands the transaction to db.sendToWriteCh,
\* which gives a waiter or an error.
CommitWith(t) ==
    /\ th[t].pc = "idle"
    /\ th[t].cw = "none"
    /\ IF Len(tx[t].pendingWrites) = 0
       THEN /\ th' = [th EXCEPT ![t].cw = "nil", ![t].op = "CommitWith"]
            /\ faults' = faults
       ELSE \/ /\ th' = [th EXCEPT ![t].cw = "commit", ![t].op = "CommitWith"]
               /\ faults' = faults
            \/ /\ faults < MaxFaults
               /\ th' = [th EXCEPT ![t].cw = "err", ![t].op = "CommitWith"]
               /\ faults' = faults + 1
    /\ UNCHANGED <<opt, db, disk, tx, handled, nputs>>

\* the commit dispatcher takes a submitted transaction and calls Commit
Dispatch(t) ==
    /\ th[t].cw = "commit"
    /\ th[t].op = "CommitWith"
    /\ CommitCheckClosed(t)

\* the waiter of the dispatcher has the result of Commit
Waited(t) == th[t].op = "Commit" /\ th[t].pc = "idle"

\* runTxnCallback, lines 101-115, in its goroutine: the user callback gets
\* cb.err, or what cb.commit() returns once the waiter has it, or nil
runTxnCallback(t) ==
    /\ th[t].cbs = 0
    /\ IF th[t].cw = "commit" THEN Waited(t) ELSE th[t].cw \in {"nil", "err"}
    /\ th' = [th EXCEPT ![t].cbs = @ + 1]
    /\ UNCHANGED <<opt, db, disk, tx, handled, nputs, faults>>

\* the steps of Begin and of Commit that are taken once their call has
\* begun, but for the passes of the loop of Commit
AsyncStep(t) ==
    \/ lock(t)
    \/ BeginSetRunning(t)
    \/ CommitCheckDB(t)
    \/ CommitDeferSetClosed(t)
    \/ CommitDeferHandle(t)
    \/ CommitDeferUnlock(t)
    \/ CommitDeferClear(t)

\* SpecAsync: writable transactions whose callers put and then call
\* CommitWith; the dispatcher runs Commit for each submitted transaction and
\* every goroutine that can take a step takes it in the end
NextAsync ==
    \/ \E t \in Txs : BeginNew(t, TRUE)
    \/ \E t \in Txs : AsyncStep(t)
    \/ \E t \in Txs : CommitLoop(t)
    \/ \E t \in Txs : Open(t) /\ th[t].cw = "none" /\ Put(t)
    \/ \E t \in Txs : Open(t) /\ CommitWith(t)
    \/ \E t \in Txs : Dispatch(t)
    \/ \E t \in Txs : runTxnCallback(t)

\* the goroutines are scheduled fairly.  CommitLoop(t) is enabled exactly
\* when t is in the loop and every pass moves t on, so weak fairness of the
\* passes is that t is not in the loop for ever.
FairAsync ==
    \A t \in Txs : /\ WF_vars(AsyncStep(t))
                   /\ []<>(th[t].pc # "loop")
                   /\ WF_vars(Dispatch(t))
                   /\ WF_vars(runTxnCallback(t))

SpecAsync == Init /\ [][NextAsync]_vars /\ FairAsync

\* SpecData: writable transactions that put entries of every kind to the
\* buckets and keys of the DB and commit; the DB stays open and no I/O fails
NextData ==
    \/ \E t \in Txs : BeginNew(t, TRUE)
    \/ \E t \in Txs : lock(t) \/ BeginSetRunning(t)
    \/ \E t \in Txs : CommitCheckDB(t) \/ CommitLoop(t) \/ CommitDeferSetClosed(t)
    \/ \E t \in Txs : CommitDeferHandle(t) \/ CommitDeferUnlock(t)
    \/ \E t \in Txs : CommitDeferClear(t)
    \/ \E t \in Txs : Open(t) /\ PutKind(t)
    \/ \E t \in Txs : Open(t) /\ CommitCheckClosed(t)

SpecData == InitRace /\ [][NextData]_vars
(* ----------------------------- properties ----------------------------- *)
\* C1 (atomic visibility): when a Commit is about to return, the lock still
\* held, either it returns an error and the in-memory indexes are the ones it
\* found, or it returns nil and the indexes hold, for every key it wrote, the
\* last entry it wrote to that key.
C1_AtomicVisibility ==
    \A t \in Txs :
        (th[t].pc = "deferSetClosed" /\ th[t].cst = txStatusRunning /\ ~th[t].panicking) =>
            IF th[t].err # NoErr
            THEN Indexes(db) = th[t].snap.idx
            ELSE \A j \in 1..Len(tx[t].pendingWrites) :
                    LET e == tx[t].pendingWrites[j]
                    IN (\A k \in (j + 1)..Len(tx[t].pendingWrites) :
                            tx[t].pendingWrites[k].key # e.key) =>
                       IF opt.EntryIdxMode = HintBPTSparseIdxMode
                       THEN \E x \in db.ActiveBPTreeIdx :
                                /\ x.key = getNewKey(e.bucket, e.key)
                                /\ x.meta.txid = e.txid /\ x.meta.idx = e.idx
                       ELSE \E x \in db.BTreeIdx[e.bucket].items :
                                /\ x.key = e.key
                                /\ x.hint.meta.txid = e.txid /\ x.hint.meta.idx = e.idx

\* C2 (commit marker): of the entries of one transaction in the segment
\* files, the one with status Committed is the last of its pendingWrites and
\* every other is UnCommitted; all carry the TxID of the transaction; after a
\* Commit that returned nil every entry of the transaction is in the files.
C2_CommitMarker ==
    /\ \A r \in disk.seg :
          /\ r.e.txid \in Txs
          /\ r.e.status = IF r.e.idx = th[r.e.txid].writesLen
                          THEN Committed ELSE UnCommitted
    /\ \A t \in Txs : \A j \in 1..Len(tx[t].pendingWrites) :
          tx[t].pendingWrites[j].txid = tx[t].id
    /\ \A t \in Txs :
          (th[t].pc = "deferSetClosed" /\ th[t].err = NoErr /\ ~th[t].panicking) =>
              /\ {r.e.idx : r \in {q \in disk.seg : q.e.txid = tx[t].id}}
                     = 1..th[t].writesLen
              /\ \A r, q \in disk.seg :
                     (r.e.txid = tx[t].id /\ q.e.txid = tx[t].id
                      /\ r.e.status = Committed /\ q.e.status = Committed) => r = q

\* a committed transaction whose entries lie in two segment files, the last
\* one Committed
C2_Witness ==
    \E t \in Txs : \E r, q \in disk.seg :
        /\ th[t].op = "Commit" /\ th[t].pc = "idle" /\ th[t].ret = NoErr
        /\ r.e.txid = t /\ q.e.txid = t /\ r.fid < q.fid
        /\ r.e.status = UnCommitted /\ q.e.status = Committed

\* C3 (no marker on failure): when a Commit is about to return an error, the
\* lock still held, no entry with its TxID and status Committed is in the
\* segment files.
C3_NoMarkerOnFailure ==
    \A t \in Txs :
        (th[t].pc = "deferSetClosed" /\ th[t].err # NoErr) =>
            ~\E r \in disk.seg : r.e.txid = tx[t].id /\ r.e.status = Committed

\* C4 (no entry spans segments): every entry in the segment files lies within
\* SegmentSize; between two passes of the loop of a Commit the bytes of the
\* active segment and of the commit buffer together fit into the segment, an
\* entry that would not fit being encoded after the rotation; and no flush
\* finds the segment too small for the buffer.
C4_NoEntrySpansSegments ==
    /\ \A r \in disk.seg : r.off >= 0 /\ r.off + r.e.size <= SegmentSize
    /\ \A t \in Txs :
          /\ (th[t].pc = "loop" /\ tx[t].db /\ ~db.ActiveFile.nil) =>
                 db.ActiveFile.ActualSize + SumSize(th[t].buff) <= SegmentSize
          /\ th[t].err # ErrNoSpace

\* an entry at the start of a segment that did not fit behind the entry of
\* the same transaction that ends the segment before
C4_Witness ==
    \E r, q \in disk.seg :
        /\ r.e.txid = q.e.txid /\ r.e.idx + 1 = q.e.idx
        /\ r.fid < q.fid /\ q.off = 0
        /\ r.off + r.e.size + q.e.size > SegmentSize

\* C5 (oversized entry): when no I/O failed, a Commit whose pendingWrites
\* hold an entry larger than SegmentSize returns ErrDataSizeExceed and leaves
\* the active segment, MaxFileID and the indexes as it found them.
C5_OversizedEntry ==
    \A t \in Txs :
        (/\ th[t].pc = "deferSetClosed" /\ faults = 0
         /\ \E j \in 1..Len(tx[t].pendingWrites) :
                tx[t].pendingWrites[j].size > SegmentSize) =>
            /\ th[t].err = ErrDataSizeExceed
            /\ db.ActiveFile = th[t].snap.file
            /\ db.MaxFileID = th[t].snap.MaxFileID
            /\ Indexes(db) = th[t].snap.idx

\* C6 (batch bounds): a put made on a writable Running transaction once
\* len(pendingWrites) has reached MaxBatchCount or size has reached
\* MaxBatchSize adds nothing to pendingWrites and returns ErrTxnTooBig.
C6_BatchBounds ==
    [][\A t \in Txs :
          (/\ nputs' # nputs
           /\ <<tx'[t], th'[t]>> # <<tx[t], th[t]>>
           /\ tx[t].writable /\ isRunning(t)
           /\ checkSize(t) = ErrTxnTooBig) =>
              /\ tx'[t].pendingWrites = tx[t].pendingWrites
              /\ th'[t].ret = ErrTxnTooBig]_vars

\* C7 (single writer): no two writable transactions are Running or
\* Committing at once, those of a Begin that fails included.
C7_SingleWriter ==
    \A t, u \in Txs :
        (/\ t # u /\ tx[t].writable /\ tx[u].writable
         /\ tx[t].status \in {txStatusRunning, txStatusCommitting}) =>
            tx[u].status \notin {txStatusRunning, txStatusCommitting}

\* C8 (calls on a Closed transaction): a Commit called on a transaction whose
\* status is Closed returns ErrCannotCommitAClosedTx, a Rollback called on one
\* returns ErrCannotRollbackAClosedTx, and neither releases the lock again.
C8_ClosedIdempotent ==
    \A t \in Txs :
        /\ (th[t].op = "Commit" /\ th[t].cst = txStatusClosed
            /\ th[t].pc \in {"idle", "dead"}) =>
               th[t].ret = ErrCannotCommitAClosedTx /\ isClosed(t)
        /\ (th[t].rst = txStatusClosed /\ th[t].rpc \in {"idle", "dead"}) =>
               th[t].rret = ErrCannotRollbackAClosedTx /\ isClosed(t)
        /\ th[t].unlocks <= 1

\* C9 (Rollback by state): a Rollback called on a Running transaction that is
\* never committed returns nil and leaves the status Closed, the lock
\* released once, db and pendingWrites cleared; no step of a Rollback changes
\* the files or the indexes; and a Rollback that finds the status Committing
\* returns ErrCannotRollbackACommittingTx and changes neither the
\* transactions nor the DB, the lock included.
C9_RollbackByState ==
    /\ [](\A t \in Txs :
            (th[t].rst = txStatusRunning /\ th[t].cst = txStatusUnset
             /\ th[t].rpc = "idle") =>
                /\ th[t].rret = NoErr
                /\ isClosed(t) /\ th[t].unlocks = 1
                /\ ~tx[t].db /\ tx[t].pendingWrites = <<>>)
    /\ [][\A t \in Txs :
            th'[t].rpc # th[t].rpc =>
                /\ disk' = disk
                /\ Indexes(db') = Indexes(db)
                /\ (th[t].rpc = "isCommitting" /\ isCommitting(t)) =>
                       /\ th'[t].rret = ErrCannotRollbackACommittingTx
                       /\ th'[t].rpc = "idle"
                       /\ tx' = tx /\ db' = db]_vars

\* one transaction rolled back from Running, and another whose Rollback was
\* refused while its Commit is going on
C9_Witness ==
    \E t, u \in Txs :
        /\ th[t].rst = txStatusRunning /\ th[t].cst = txStatusUnset
        /\ th[t].rpc = "idle" /\ th[t].rret = NoErr /\ isClosed(t)
        /\ th[u].rret = ErrCannotRollbackACommittingTx /\ th[u].rpc = "idle"
        /\ isCommitting(u) /\ th[u].pc = "loop"

\* C10 (Commit always closes): a Commit called on a Running transaction with
\* a db has, when it is over, set the status to Closed, released the lock
\* once and cleared db, pendingWrites and ReservedStoreTxIDIdxes; the status
\* is Closed when it releases the lock; with nothing pending it returns nil
\* and leaves the files and the indexes as they were.
C10_CommitCloses ==
    \A t \in Txs :
        (th[t].op = "Commit" /\ th[t].cst = txStatusRunning) =>
            /\ th[t].pc \in {"idle", "dead"} =>
                  /\ isClosed(t) /\ th[t].unlocks = 1
                  /\ ~tx[t].db /\ tx[t].pendingWrites = <<>>
                  /\ tx[t].ReservedStoreTxIDIdxes = {}
            /\ th[t].pc = "deferUnlock" => isClosed(t) /\ th[t].unlocks = 0
            /\ th[t].unlocks > 0 => isClosed(t)
            /\ (th[t].pc \in {"deferSetClosed", "deferHandle", "deferUnlock"}
                /\ th[t].writesLen = 0) =>
                  /\ th[t].err = NoErr
                  /\ disk = th[t].snap.disk
                  /\ Indexes(db) = th[t].snap.idx
                  /\ db.ActiveFile = th[t].snap.file
            /\ (th[t].pc = "idle" /\ th[t].writesLen = 0) => th[t].ret = NoErr

\* a Commit that failed and has closed the transaction and released the lock
C10_Witness ==
    \E t \in Txs :
        /\ th[t].op = "Commit" /\ th[t].cst = txStatusRunning /\ th[t].pc = "idle"
        /\ th[t].ret \notin {NoErr, NoRet}
        /\ isClosed(t) /\ th[t].unlocks = 1 /\ ~Held(db.mu, tx[t].writable)

\* C11 (error handler ordering): with an ErrorHandler, a Commit that returns
\* an error, ErrCannotCommitAClosedTx and ErrDBClosed included, has called
\* the handler once with that error when it releases the lock, clears the
\* fields and returns; a Commit that returns nil has not called it.
C11_HandlerOrdering ==
    \A t \in Txs :
        (opt.ErrorHandler /\ th[t].op = "Commit"
         /\ th[t].pc \in {"deferUnlock", "deferClear", "idle", "dead"}) =>
            IF th[t].err # NoErr
            THEN Cardinality({k \in 1..Len(handled) :
                     handled[k] = [tx |-> t, err |-> th[t].err]}) = 1
            ELSE \A k \in 1..Len(handled) : handled[k].tx # t

\* C12 (status FSM): the status of a transaction, once Begin has set it
\* Running, only moves Running -> Committing, Running -> Closed or
\* Committing -> Closed, whatever the interleaving of Commit and Rollback.
C12_StatusFSM ==
    [][\A t \in Txs :
          (tx'[t].status # tx[t].status /\ tx[t].status # txStatusUnset) =>
              <<tx[t].status, tx'[t].status>> \in
                  {<<txStatusRunning, txStatusCommitting>>,
                   <<txStatusRunning, txStatusClosed>>,
                   <<txStatusCommitting, txStatusClosed>>}]_vars

\* C13 (no double release): when Commit and Rollback are called on the same
\* transaction from two threads, the lock Begin took is released at most
\* once, and neither call dies on a tx.db the other has cleared or on a lock
\* the other has released.
C13_NoDoubleRelease ==
    \A t \in Txs :
        /\ th[t].unlocks <= 1
        /\ th[t].ret \notin {Panic, Fatal}
        /\ th[t].rret \notin {Panic, Fatal}

\* C14 (rotation monotonicity): MaxFileID never decreases and a rotation,
\* also one that fails part-way, raises it by one; no segment file and no
\* active segment has a fileID above MaxFileID; and a new active segment gets
\* the raised MaxFileID as its fileID, which is above the fileID of the
\* segment before it and of every entry in the files.
C14_RotationMonotone ==
    /\ [](/\ \A r \in disk.seg : r.fid <= db.MaxFileID
          /\ ~db.ActiveFile.nil => db.ActiveFile.fileID <= db.MaxFileID)
    /\ [][/\ db'.MaxFileID \in {db.MaxFileID, db.MaxFileID + 1}
          /\ (~db'.ActiveFile.nil
              /\ \/ db'.ActiveFile.fileID # db.ActiveFile.fileID
                 \/ /\ db'.MaxFileID # db.MaxFileID
                    /\ \E t \in Txs : /\ th[t].pc = "loop" /\ th'[t].err = NoErr
                                      /\ ~th'[t].panicking) =>
                 /\ db'.MaxFileID = db.MaxFileID + 1
                 /\ db'.ActiveFile.fileID = db'.MaxFileID
                 /\ db'.ActiveFile.fileID > db.ActiveFile.fileID
                 /\ \A r \in disk.seg : r.fid < db'.ActiveFile.fileID]_vars

\* a rotation that failed part-way: MaxFileID is raised and the old segment
\* is still the active one
C14_Witness ==
    /\ ~db.ActiveFile.nil
    /\ db.MaxFileID = db.ActiveFile.fileID + 1
    /\ \E t \in Txs : th[t].op = "Commit" /\ th[t].pc = "idle" /\ th[t].ret = ErrIO

\* C15 (write ordering): of two entries of one transaction in the segment
\* files, the one put first lies in an earlier file or ends, in the same
\* file, where the other begins or before; and no two entries in a file
\* overlap.
C15_WriteOrdering ==
    \A r, q \in disk.seg :
        /\ (r.e.txid = q.e.txid /\ r.e.idx < q.e.idx) =>
               \/ r.fid < q.fid
               \/ r.fid = q.fid /\ r.off + r.e.size <= q.off
        /\ (r # q /\ r.fid = q.fid) =>
               r.off + r.e.size <= q.off \/ q.off + q.e.size <= r.off

\* a transaction with two entries flushed together, one behind the other in
\* the same file
C15_Witness ==
    \E r, q \in disk.seg :
        /\ r.e.txid = q.e.txid /\ r.e.idx = 1 /\ q.e.idx = 2
        /\ r.fid = q.fid /\ r.off + r.e.size = q.off

\* C16 (bucket meta widening): in sparse mode, between two commits, the
\* cached and the persisted bucketMeta of every bucket b are unset when no
\* entry was written to b, and else have as start and end the least and the
\* greatest key of the entries written to b.
C16_BucketMetaWidening ==
    (opt.EntryIdxMode = HintBPTSparseIdxMode
     /\ \A t \in Txs : th[t].pc \in {"none", "lock", "setRunning", "idle"}) =>
        \A b \in Buckets :
            LET ks == {r.e.key : r \in {q \in disk.seg : q.e.bucket = b}}
            IN /\ db.bucketMetas[b] = disk.bucketMeta[b]
               /\ db.bucketMetas[b].ok = (ks # {})
               /\ ks # {} =>
                     /\ db.bucketMetas[b].start \in ks
                     /\ db.bucketMetas[b].end \in ks
                     /\ \A k \in ks : /\ compare(db.bucketMetas[b].start, k) <= 0
                                      /\ compare(db.bucketMetas[b].end, k) >= 0

\* C17 (index after append): an entry that the in-memory index holds a hint
\* of, in db.BTreeIdx or in db.ActiveBPTreeIdx, has been written to a segment
\* file by writeData.
C17_IndexAfterAppend ==
    /\ \A b \in Buckets : \A x \in db.BTreeIdx[b].items :
          \E r \in disk.seg :
              r.e.txid = x.hint.meta.txid /\ r.e.idx = x.hint.meta.idx
    /\ \A x \in db.ActiveBPTreeIdx :
          \E r \in disk.seg : r.e.txid = x.meta.txid /\ r.e.idx = x.meta.idx

CommitSucceeded(t) ==
    /\ th[t].op = "Commit" /\ th[t].cst = txStatusRunning
    /\ th[t].pc \in {"deferSetClosed", "deferHandle", "deferUnlock"}
    /\ th[t].err = NoErr /\ ~th[t].panicking

\* the index of the last Tree entry of ws for (b, k); 0 when there is none
LastTreeWrite(ws, b, k) ==
    LET js == {j \in 1..Len(ws) : ws[j].ds = DataStructureTree
                                  /\ ws[j].bucket = b /\ ws[j].key = k}
    IN IF js = {} THEN 0 ELSE CHOOSE j \in js : \A j2 \in js : j2 <= j

\* C19 (tree index and TTL rules): in the non-sparse modes, after a
\* successful Commit, every (bucket, key) touched by Tree entries of the
\* transaction follows the last of them: a Set, expired or not, leaves the
\* key mapped to its hint and an expiry task pending iff its ttl is not 0; a
\* Delete leaves the key absent and no expiry task pending.  Buckets the
\* transaction deletes are left out.
C19_TreeIndexRules ==
    \A t \in Txs :
        (CommitSucceeded(t) /\ opt.EntryIdxMode # HintBPTSparseIdxMode) =>
            \A b \in Buckets \ DeletedBuckets(tx[t].pendingWrites) : \A k \in Keys :
                LET ws == tx[t].pendingWrites
                    j == LastTreeWrite(ws, b, k)
                IN j # 0 =>
                    IF ws[j].flag = DataSetFlag
                    THEN /\ \E x \in db.BTreeIdx[b].items :
                                /\ x.key = k
                                /\ x.hint.meta.txid = t /\ x.hint.meta.idx = ws[j].idx
                         /\ (<<b, k>> \in db.tm) <=> (ws[j].ttl # Persistent)
                    ELSE /\ ~\E x \in db.BTreeIdx[b].items : x.key = k
                         /\ <<b, k>> \notin db.tm

\* the bucket-delete entries of ws for bucket b
BucketDeletes(ws, b) ==
    {j \in 1..Len(ws) : ws[j].ds = DataStructureNone /\ ws[j].bucket = b
                        /\ ws[j].flag = DataBPTreeBucketDeleteFlag}

\* after a successful Commit in the non-sparse modes, the B-tree of every
\* bucket the transaction has a bucket-delete entry for is removed, and every
\* entry of the transaction is in a segment file
BucketsRemoved ==
    \A t \in Txs :
        (CommitSucceeded(t) /\ opt.EntryIdxMode # HintBPTSparseIdxMode) =>
            /\ \A b \in Buckets :
                  BucketDeletes(tx[t].pendingWrites, b) # {} =>
                      db.BTreeIdx[b] = [ok |-> FALSE, items |-> {}]
            /\ \A j \in 1..Len(tx[t].pendingWrites) :
                  \E r \in disk.seg : r.e.txid = t /\ r.e.idx = j

\* the step of Commit that ends the loop without an error adds
\* len(pendingWrites) to KeyCount
KeyCountGrows ==
    \A t \in Txs :
        (th[t].pc = "loop" /\ th'[t].pc = "deferSetClosed"
         /\ th'[t].err = NoErr /\ ~th'[t].panicking) =>
            db'.KeyCount = db.KeyCount + Len(tx[t].pendingWrites)

\* C20 (bucket deletion after the loop): after a successful Commit whose
\* pendingWrites has a bucket-delete entry for a bucket, the B-tree of the
\* bucket is removed whatever the position of that entry, so entries written
\* into the bucket after it are on disk and not in the index; KeyCount grows
\* by len(pendingWrites).
C20_BucketDeleteLast == []BucketsRemoved /\ [][KeyCountGrows]_vars

\* a committed transaction that deletes a bucket and then sets a key in it:
\* both entries are on disk, the Set after the bucket delete, and the bucket
\* has no B-tree
C20_Witness ==
    \E t \in Txs : \E b \in Buckets :
        /\ CommitSucceeded(t) /\ opt.EntryIdxMode # HintBPTSparseIdxMode
        /\ Len(tx[t].pendingWrites) = 2
        /\ BucketDeletes(tx[t].pendingWrites, b) = {1}
        /\ tx[t].pendingWrites[2].ds = DataStructureTree
        /\ tx[t].pendingWrites[2].bucket = b
        /\ tx[t].pendingWrites[2].flag = DataSetFlag
        /\ ~tx[t].pendingWrites[2].expired
        /\ \E r1, r2 \in disk.seg :
              /\ r1.e.txid = t /\ r1.e.idx = 1 /\ r2.e.txid = t /\ r2.e.idx = 2
              /\ r1.fid = r2.fid /\ r1.off < r2.off
        /\ db.BTreeIdx[b] = [ok |-> FALSE, items |-> {}]
        /\ db.KeyCount >= 2

\* the transactions whose Commit wrote entries and returned nil
CommittedTxIDs ==
    {t \in Txs : /\ th[t].op = "Commit" /\ th[t].cst = txStatusRunning
                 /\ th[t].pc = "idle" /\ th[t].ret = NoErr
                 /\ th[t].writesLen > 0}

\* no Commit is between its first step and its return
NoCommitRunning ==
    \A t \in Txs : th[t].pc \notin {"checkDB", "loop", "deferSetClosed",
                                    "deferHandle", "deferUnlock", "deferClear"}

\* C21 (committed TxIDs survive rotation): in the sparse mode, whenever
\* every Commit has returned, with nil or with an error, the TxID of every
\* earlier successful Commit is in db.ActiveCommittedTxIdsIdx or in a
\* persisted BPTTxID-<fID> file.
C21_CommittedTxIDsKept ==
    (opt.EntryIdxMode = HintBPTSparseIdxMode /\ NoCommitRunning) =>
        \A t \in CommittedTxIDs :
            \/ t \in db.ActiveCommittedTxIdsIdx
            \/ \E r \in disk.bptTxID : t \in r.ids

\* a Commit that ran has returned, with nil or with an error
CommitReturned(t) ==
    /\ th[t].op = "Commit" /\ th[t].cst = txStatusRunning /\ th[t].pc = "idle"

\* C22 (active segment identity): whenever a Commit has returned, with nil
\* or with an error, and no other Commit is running, db.ActiveFile is an
\* open handle, its fileID is db.MaxFileID and its writeOff is its
\* ActualSize.
C22_ActiveSegmentIdentity ==
    ((\E t \in Txs : CommitReturned(t)) /\ NoCommitRunning) =>
        /\ ~db.ActiveFile.nil
        /\ ~db.ActiveFile.released
        /\ db.ActiveFile.fileID = db.MaxFileID
        /\ db.ActiveFile.writeOff = db.ActiveFile.ActualSize

\* the callback of t was called once, t is Closed and has released its lock
Completed(t) ==
    /\ th[t].cbs = 1
    /\ tx[t].status = txStatusClosed
    /\ th[t].unlocks = 1

\* CommitWith has gone its way for t: with no pending write, or with the
\* transaction submitted to the dispatcher
Accepted(t) == th[t].cw \in {"nil", "commit"}

\* C23 (CommitWith completes): after a CommitWith call on a Running writable
\* transaction, with or without pending writes, that the dispatcher did not
\* refuse, the user callback is called, and never more than once, the
\* transaction gets Closed and its lock is released; a writable Begin that
\* waits for the lock while every earlier transaction has had such a
\* CommitWith call gets the lock.
C23_CommitWithCompletes ==
    /\ \A t \in Txs : Accepted(t) ~> Completed(t)
    /\ [](\A t \in Txs : th[t].cbs <= 1)
    /\ \A t \in Txs :
          (th[t].pc = "lock" /\ \A u \in 1..(t - 1) : Accepted(u))
              ~> (th[t].pc # "lock")
====
